---- MODULE Spec2Model ----
(***************************************************************************)
(* A model of the node-runner supervisor: the single-worker NodeRunner     *)
(* (currentWorker / workerPromise, with retries), its WorkerProcess        *)
(* handles and the worker child process serving one connection per task.   *)
(*                                                                         *)
(* The host process is a JavaScript event loop.  A handler runs to its     *)
(* next await; continuations of settled promises run from a FIFO          *)
(* microtask queue (mq) before any further I/O event (timers, socket       *)
(* events, child exit events) is handled.  API calls (start, stop,         *)
(* compute) come from the embedding program and may be made at any time.   *)
(***************************************************************************)
EXTENDS Integers, Sequences, FiniteSets, TLC

\* ---------------------------------------------------------------- bounds
MaxCalls == 2
MaxWorkers == 2
MaxStops == 1
MaxCrashes == 1
\* the most start() calls awaiting one spawn
MaxStarts == 2
\* the largest values of config.retries and config.recycleThreshold tried
MaxRetries == 1
MaxThreshold == 2

\* the pooled runner: calls, handles, crashes; config.workerPoolSize and
\* config.workerRecycleThreshold
MaxPoolCalls == 3
MaxPoolHandles == 4
MaxPoolCrashes == 1
MaxPoolStops == 1
WorkerPoolSize == 1
WorkerRecycleThreshold == 1

\* the worker queue: calls, workers, crashes, stop() calls and the largest
\* config.workersCount tried
MaxQueueCalls == 3
MaxQueueWorkers == 5
MaxQueueCrashes == 1
MaxQueueStops == 1
MaxWorkersCount == 2

\* the worker's IPC server: connections accepted
MaxConns == 3

\* two runners in one host process: handles, compute() calls per runner
MaxTwoWorkers == 3
MaxTwoCalls == 2
MaxTwoStops == 1

\* the chunked stream: payloads written, bytes per payload
MaxPayloads == 2
MaxPayloadLen == 2

Calls == 1..MaxCalls
Conns == 1..MaxConns
Runners == 1..2
TwoWorkers == 1..MaxTwoWorkers
QueueCalls == 1..MaxQueueCalls
QueueWorkers == 1..MaxQueueWorkers
PoolCalls == 1..MaxPoolCalls
PoolHandles == 1..MaxPoolHandles
Workers == 1..MaxWorkers
Stops == 1..MaxStops

VARIABLES
    config,             \* NodeRunner.config: retries and recycleThreshold
    currentWorker,      \* NodeRunner.currentWorker: 0 (null) or a handle
    workerPromise,      \* NodeRunner.workerPromise: 0 (null) or the handle its promise settles from
    tasksProcessed,     \* NodeRunner.tasksProcessed
    onRecycle,          \* number of onRecycle events emitted
    worker,             \* the WorkerProcess handles and their child processes
    terminatingWorkers, \* WorkerProcess.terminatingWorkers
    call,               \* the compute() calls
    sock,               \* the connections, one per WorkerProcess.compute() call
    awaiting,           \* compute() calls awaiting a pending workerPromise, in order
    mq,                 \* microtask queue: compute() calls whose awaited promise has settled
    stop,               \* the stop() calls
    stopped,            \* stop() was called and start() has not been called since
    starts,             \* per handle, the number of start() calls awaiting its pending promise
    lastOutcome,        \* the compute() call that settled last, its handle and its outcome
    crashes             \* number of child crashes so far

\* the pooled NodeRunner (workerPool), a program of its own
VARIABLES
    running,            \* NodeRunner.running
    populating,         \* NodeRunner.populating
    workerPool,         \* NodeRunner.workerPool, front first
    poolWorker,         \* the handles of the pooled runner
    batch,              \* the populatePool() bodies in flight: the handles each is creating
    grab,               \* the compute() calls of the pooled runner
    micro,              \* microtask queue: calls whose awaited promise has settled
    background,         \* a populateInBackground() timer is pending
    mkdirPending,       \* start() is awaiting mkdir
    poolCrashes,        \* number of children of the pooled runner that crashed or were not ready in time
    poolStops           \* number of stop() calls of the pooled runner

\* the WorkerQueue (idleWorkers / taskQueue), a program of its own
VARIABLES
    workersCount,       \* config.workersCount
    queueRunning,       \* WorkerQueue.running
    idleWorkers,        \* WorkerQueue.idleWorkers, front first
    taskQueue,          \* WorkerQueue.taskQueue: the waiting calls' callbacks, front first
    qtask,              \* the compute() calls of the queue
    qworker,            \* the workers of the queue: their child processes
    capacityTimers,     \* pending setTimeout(() => ensureCapacity(), 0) timers
    queueCrashes,       \* number of children of the queue that exited on their own
    queueStops          \* number of stop() calls of the queue

\* the IPC server of one worker child (serveClient), a program of its own
VARIABLES
    conn                \* the connections accepted and how far serveClient() has got

\* two NodeRunner instances in one host process, sharing the static
\* WorkerProcess.terminatingWorkers
VARIABLES
    rcurrent,           \* each runner's currentWorker
    rtasks,             \* each runner's tasksProcessed
    rstops,             \* each runner's stop() calls
    tworker,            \* the handles: who spawned them, their child, their counters
    registry            \* WorkerProcess.terminatingWorkers

\* a stream written with writeChunkStream() and read with
\* consumeChunkedStream(), a program of its own
VARIABLES
    written,            \* the payloads passed to writeChunkStream(), in order
    wire,               \* the bytes written and not yet delivered to the reader
    buffer,             \* consumeChunkedStream: buffer
    payloadLength,      \* consumeChunkedStream: payloadLength
    yielded,            \* the payloads consumeChunkedStream() has yielded, in order
    ended               \* the stream has ended and the generator has returned

runnerVars == <<config, currentWorker, workerPromise, tasksProcessed, onRecycle, worker,
                terminatingWorkers, call, sock, awaiting, mq, stop, stopped, starts,
                lastOutcome, crashes>>

poolVars == <<running, populating, workerPool, poolWorker, batch, grab, micro,
              background, mkdirPending, poolCrashes, poolStops>>

\* what the single-worker runner leaves alone
queueVars == <<workersCount, queueRunning, idleWorkers, taskQueue, qtask, qworker,
               capacityTimers, queueCrashes, queueStops>>

serverVars == <<conn>>

twoVars == <<rcurrent, rtasks, rstops, tworker, registry>>

frameVars == <<written, wire, buffer, payloadLength, yielded, ended>>

otherVars == <<poolVars, queueVars, serverVars, twoVars, frameVars>>

vars == <<runnerVars, otherVars>>

\* ------------------------------------------------------------- values
NoValue == [task |-> 0, what |-> "none"]
Undefined == [task |-> 0, what |-> "undefined"]
Err(name) == [task |-> 0, what |-> name]
NoOutcome == [kind |-> "none", val |-> NoValue]
Resolved(v) == [kind |-> "resolved", val |-> v]
Rejected(name) == [kind |-> "rejected", val |-> Err(name)]

InitWorker ==
    [st |-> "none", file |-> FALSE, killed |-> FALSE, code |-> -1,
     notified |-> FALSE, pending |-> 0, terminating |-> FALSE,
     spawn |-> "none", dispatched |-> 0, dropped |-> FALSE, sigterms |-> 0]

InitCall ==
    [pc |-> "new", try |-> 0, prom |-> 0, w |-> 0, timer |-> FALSE, sk |-> 0]

\* a compute() call that has returned or thrown: its locals are gone; its
\* timer and its socket live on until they fire or close
Returned(cr) == [InitCall EXCEPT !.pc = "done", !.timer = cr.timer, !.sk = cr.sk]

Outcome(c, o) == [call |-> c, out |-> o]

InitSock == [st |-> "none", w |-> 0, req |-> 0, resp |-> NoValue]
ClosedSock == [InitSock EXCEPT !.st = "closed"]

InitStop == [st |-> "idle", wait |-> {}]

\* WorkerQueueConfig, as far as the runner's logic reads it
WorkerQueueConfig ==
    [retries : 0..MaxRetries, recycleThreshold : 1..MaxThreshold]

RunnerInit ==
    /\ config \in WorkerQueueConfig
    /\ currentWorker = 0
    /\ workerPromise = 0
    /\ tasksProcessed = 0
    /\ onRecycle = 0
    /\ worker = [w \in Workers |-> InitWorker]
    /\ terminatingWorkers = {}
    /\ call = [c \in Calls |-> InitCall]
    /\ sock = [c \in Calls |-> InitSock]
    /\ awaiting = <<>>
    /\ mq = <<>>
    /\ stop = [s \in Stops |-> InitStop]
    /\ stopped = FALSE
    /\ starts = [w \in Workers |-> 0]
    /\ lastOutcome = Outcome(0, NoOutcome)
    /\ crashes = 0

\* a handle of the pooled runner: its child, WorkerProcess.ready and
\* WorkerProcess.tasksProcessed
InitPoolWorker == [st |-> "none", ready |-> FALSE, tasksProcessed |-> 0]

\* a compute() call of the pooled runner; iter is the parity of the
\* iterations of grabWorker()'s loop it has made
InitGrab == [pc |-> "new", out |-> "none", w |-> 0, iter |-> 0]

\* the pooled runner after construction
PoolInit ==
    /\ running = FALSE
    /\ populating = FALSE
    /\ workerPool = <<>>
    /\ poolWorker = [h \in PoolHandles |-> InitPoolWorker]
    /\ batch = {}
    /\ grab = [c \in PoolCalls |-> InitGrab]
    /\ micro = <<>>
    /\ background = FALSE
    /\ mkdirPending = FALSE
    /\ poolCrashes = 0
    /\ poolStops = 0

\* a compute() call of the queue: timer is its queue-wait timer, w the
\* worker it was given, out the way its promise settled
InitTask == [pc |-> "new", deferred |-> FALSE, timer |-> FALSE, w |-> 0, out |-> "none"]

\* the queue after construction
QueueInit ==
    /\ queueRunning = FALSE
    /\ idleWorkers = <<>>
    /\ taskQueue = <<>>
    /\ qtask = [c \in QueueCalls |-> InitTask]
    /\ qworker = [w \in QueueWorkers |-> "none"]
    /\ capacityTimers = 0
    /\ queueCrashes = 0
    /\ queueStops = 0

\* a connection: the response documents written to it, whether
\* socket.end() was called, how often ctx.finalize() ran, whether an
\* exception was thrown in the try block and whether one left the catch
InitConn == [pc |-> "none", docs |-> <<>>, ended |-> FALSE, finalized |-> 0,
             threw |-> FALSE, escaped |-> FALSE]

ServerInit == conn = [k \in Conns |-> InitConn]

\* a handle of one of the two runners; by is the set of runners whose
\* stop() sent it a signal
InitTwoWorker == [owner |-> 0, st |-> "none", terminating |-> FALSE, pending |-> 0,
                  sigterms |-> 0, by |-> {}]

TwoInit ==
    /\ rcurrent = [r \in Runners |-> 0]
    /\ rtasks = [r \in Runners |-> 0]
    /\ rstops = [r \in Runners |-> 0]
    /\ tworker = [w \in TwoWorkers |-> InitTwoWorker]
    /\ registry = {}

\* nothing written, consumeChunkedStream() before its first chunk
FrameInit ==
    /\ written = <<>>
    /\ wire = <<>>
    /\ buffer = <<>>
    /\ payloadLength = 0
    /\ yielded = <<>>
    /\ ended = FALSE

\* the runner under every configuration, the other programs under one
Init ==
    /\ RunnerInit /\ PoolInit /\ QueueInit /\ workersCount = 0 /\ ServerInit /\ TwoInit
    /\ FrameInit


\* ------------------------------------------------- the child process
\* dying: a signal that ends the child has been sent and the kernel has not
\* ended it yet
Alive(wr) == wr.st \in {"starting", "listening", "closing", "dying"}

\* process.exitCode as the host sees it: set once the exit event was handled,
\* and still null (-1) for a child that a signal ended
ExitCode(wr) == IF wr.notified THEN wr.code ELSE -1

\* ChildProcess.kill(sig) and the child's reaction; sigterms counts the
\* SIGTERMs sent to the child.  The worker binary
\* installs process.once('SIGTERM'): the first SIGTERM closes the server
\* (no new connections, the socket file is unlinked) and the child exits 0
\* once its connections have drained; any later SIGTERM, a SIGTERM before
\* the handler is installed, and SIGKILL end the child.  kill() returns when
\* the signal is sent, not when the child has ended.
Signalled(wr, sig) ==
    IF wr.st = "none" \/ wr.notified THEN wr
    ELSE LET dies == \/ sig = "SIGKILL" /\ Alive(wr)
                     \/ sig = "SIGTERM" /\ wr.st \in {"starting", "closing"}
             closes == sig = "SIGTERM" /\ wr.st = "listening"
         IN  [wr EXCEPT !.killed = TRUE,
                        !.sigterms = IF sig = "SIGTERM" THEN @ + 1 ELSE @,
                        !.st = IF dies THEN "dying"
                               ELSE IF closes THEN "closing" ELSE @,
                        !.file = IF closes THEN FALSE ELSE @]

\* connections of a child that is gone are broken
BreakDead(sk, wk) ==
    [s \in Calls |->
        IF sk[s].st = "open" /\ ~Alive(wk[sk[s].w])
        THEN [sk[s] EXCEPT !.st = "broken"] ELSE sk[s]]

\* ------------------------------------------------------ WorkerProcess
\* scheduleTermination(): the flag; the registry entry is added by the caller
ScheduleTermination(wr) == [wr EXCEPT !.terminating = TRUE]

\* a faulty variant of TaskFinished: the listener does not look at
\* pendingTasks
TaskFinishedEager(wr) ==
    LET d == [wr EXCEPT !.pending = @ - 1]
    IN  IF d.terminating THEN Signalled(d, "SIGTERM") ELSE d

\* the finally block of compute(): pendingTasks -= 1, onTaskFinished.emit(),
\* whose listener (registered by scheduleTermination) sends SIGTERM at zero
TaskFinished(wr) ==
    LET d == [wr EXCEPT !.pending = @ - 1]
    IN  IF d.terminating /\ d.pending = 0 THEN Signalled(d, "SIGTERM") ELSE d

\* --------------------------------------------------------- NodeRunner
HasFresh(wk) == \E w \in Workers : wk[w].st = "none"
FreshW(wk) ==
    CHOOSE w \in Workers :
        wk[w].st = "none" /\ \A v \in Workers : v < w => wk[v].st # "none"

\* acquireWorker(): the promise returned, named by the handle it settles from
AcquirePromise(wp, cw, wk) ==
    IF wp # 0 THEN wp ELSE IF cw # 0 THEN cw ELSE FreshW(wk)

\* a faulty variant of AcquireFork: the cached promise is ignored
AcquireForkAlways(wp, cw, wk) ==
    IF cw = 0 /\ HasFresh(wk)
    THEN [wk EXCEPT ![FreshW(wk)] = [@ EXCEPT !.st = "starting", !.spawn = "pending"]]
    ELSE wk

\* acquireWorker(): spawnWorker() forks a child when there is neither a
\* promise nor a current worker
AcquireFork(wp, cw, wk) ==
    IF wp = 0 /\ cw = 0
    THEN [wk EXCEPT ![FreshW(wk)] = [@ EXCEPT !.st = "starting", !.spawn = "pending"]]
    ELSE wk

CanAcquire(wp, cw, wk) == (wp = 0 /\ cw = 0) => HasFresh(wk)

\* calls awaiting promise p, in the order they awaited it
Waiters(p) == SelectSeq(awaiting, LAMBDA c : call[c].prom = p)
NotWaiters(p) == SelectSeq(awaiting, LAMBDA c : call[c].prom # p)

\* start(): mkdir, then `await this.acquireWorker()`; a start() call awaiting
\* a promise that has settled returns or throws at once
Start ==
    /\ CanAcquire(workerPromise, currentWorker, worker)
    /\ workerPromise' = AcquirePromise(workerPromise, currentWorker, worker)
    /\ worker' = AcquireFork(workerPromise, currentWorker, worker)
    /\ starts' = IF worker'[workerPromise'].spawn = "pending"
                 THEN [starts EXCEPT ![workerPromise'] = @ + 1] ELSE starts
    /\ \A w \in Workers : starts'[w] <= MaxStarts
    /\ stopped' = FALSE
    /\ UNCHANGED <<otherVars, config, currentWorker, tasksProcessed, onRecycle, terminatingWorkers,
                   call, sock, awaiting, mq, stop, lastOutcome, crashes>>

\* compute(task), up to its first await
Compute(c) ==
    /\ call[c].pc = "new"
    /\ \A d \in Calls : d < c => call[d].pc # "new"
    /\ CanAcquire(workerPromise, currentWorker, worker)
    /\ tasksProcessed' = tasksProcessed + 1
    /\ LET p == AcquirePromise(workerPromise, currentWorker, worker)
           wk == AcquireFork(workerPromise, currentWorker, worker)
       IN  /\ workerPromise' = p
           /\ worker' = wk
           /\ call' = [call EXCEPT ![c] = [@ EXCEPT !.pc = "acquire", !.prom = p]]
           /\ IF wk[p].spawn = "pending"
              THEN awaiting' = Append(awaiting, c) /\ UNCHANGED mq
              ELSE mq' = Append(mq, c) /\ UNCHANGED awaiting
    /\ UNCHANGED <<otherVars, config, starts, currentWorker, onRecycle, terminatingWorkers, sock, stop,
                   stopped, lastOutcome, crashes>>

\* compute(task), resumed with the outcome of `await this.acquireWorker()`:
\* the recycle check, then WorkerProcess.compute() up to `await this.connect()`
Resume ==
    /\ mq # <<>>
    /\ LET c == Head(mq)
           w == call[c].prom
           rec == tasksProcessed % config.recycleThreshold = 0
           wr == IF rec THEN ScheduleTermination(worker[w]) ELSE worker[w]
       IN  /\ mq' = Tail(mq)
           /\ IF worker[w].spawn = "failed"
              THEN \* the promise is rejected (WorkerError has no code): rethrown
                   /\ call' = [call EXCEPT ![c] = Returned(@)]
                   /\ lastOutcome' = Outcome(c, Rejected("WorkerError"))
                   /\ UNCHANGED <<workerPromise, currentWorker, onRecycle,
                                  terminatingWorkers, worker>>
              ELSE /\ workerPromise' = IF rec THEN 0 ELSE workerPromise
                   /\ currentWorker' = IF rec THEN 0 ELSE currentWorker
                   /\ onRecycle' = IF rec THEN onRecycle + 1 ELSE onRecycle
                   /\ terminatingWorkers' =
                        IF rec /\ ~worker[w].terminating
                        THEN terminatingWorkers \cup {w} ELSE terminatingWorkers
                   /\ IF wr.killed
                      THEN \* 'Worker has been destroyed': rethrown by the catch
                           /\ worker' = [worker EXCEPT ![w] = wr]
                           /\ call' = [call EXCEPT ![c] = Returned(@)]
                           /\ lastOutcome' = Outcome(c, Rejected("InvalidStateError"))
                      ELSE /\ worker' = [worker EXCEPT ![w] =
                                   [wr EXCEPT !.pending = @ + 1, !.dispatched = @ + 1]]
                           /\ call' = [call EXCEPT ![c] = [@ EXCEPT !.pc = "connect", !.w = w]]
                           /\ UNCHANGED lastOutcome
    /\ UNCHANGED <<otherVars, config, starts, tasksProcessed, sock, awaiting, stop, stopped, crashes>>

\* a faulty variant of NewSocket: calls on the same handle share one open
\* connection
SharedSocket(c, w) ==
    IF \E s \in Calls : sock[s].st = "open" /\ sock[s].w = w
    THEN CHOOSE s \in Calls : sock[s].st = "open" /\ sock[s].w = w
    ELSE c

\* createConnection(): every WorkerProcess.compute() call opens a connection
\* of its own
NewSocket(c, w) == c

\* the request written by socket.end(payload): the task's moduleUrl and params
Request(c) == c

\* connect() resolves: the request is written, the timer armed
ConnectOk(c) ==
    /\ mq = <<>>
    /\ call[c].pc = "connect"
    /\ worker[call[c].w].st = "listening"
    /\ LET s == NewSocket(c, call[c].w)
       IN  /\ sock' = [sock EXCEPT ![s] = [st |-> "open", w |-> call[c].w,
                                           req |-> Request(c), resp |-> NoValue]]
           /\ call' = [call EXCEPT ![c] = [@ EXCEPT !.pc = "wait", !.timer = TRUE,
                                                    !.sk = s]]
    /\ UNCHANGED <<otherVars, config, starts, currentWorker, workerPromise, tasksProcessed, onRecycle, worker,
                   terminatingWorkers, awaiting, mq, stop, stopped, lastOutcome, crashes>>

\* the catch of NodeRunner.compute() on ECONNREFUSED: it retries only if the
\* runner's current worker has the refused socket file
Retries(c) == currentWorker # 0 /\ currentWorker = call[c].w

\* connect() rejects with ECONNREFUSED (the child is gone, its socket file is
\* still there)
ConnectRefused(c) ==
    /\ mq = <<>>
    /\ call[c].pc = "connect"
    /\ ~Alive(worker[call[c].w]) /\ worker[call[c].w].file
    /\ IF Retries(c)
       THEN IF call[c].try + 1 <= config.retries
            THEN \* continue: the next iteration calls acquireWorker() again
                 /\ HasFresh(worker)
                 /\ LET p == AcquirePromise(0, 0, worker)
                    IN  /\ workerPromise' = p
                        /\ currentWorker' = 0
                        /\ worker' = AcquireFork(0, 0, worker)
                        /\ call' = [call EXCEPT ![c] = [@ EXCEPT !.pc = "acquire",
                                        !.try = @ + 1, !.prom = p, !.w = 0]]
                        /\ awaiting' = Append(awaiting, c)
                        /\ UNCHANGED lastOutcome
            ELSE \* the loop ends and compute() returns undefined
                 /\ workerPromise' = 0
                 /\ currentWorker' = 0
                 /\ call' = [call EXCEPT ![c] = Returned(@)]
                 /\ lastOutcome' = Outcome(c, Resolved(Undefined))
                 /\ UNCHANGED <<worker, awaiting>>
       ELSE /\ call' = [call EXCEPT ![c] = Returned(@)]
            /\ lastOutcome' = Outcome(c, Rejected("ECONNREFUSED"))
            /\ UNCHANGED <<workerPromise, currentWorker, worker, awaiting>>
    /\ UNCHANGED <<otherVars, config, starts, tasksProcessed, onRecycle, terminatingWorkers, sock, mq, stop,
                   stopped, crashes>>

\* connect() rejects with ENOENT (the socket file is gone): rethrown
ConnectNoEnt(c) ==
    /\ mq = <<>>
    /\ call[c].pc = "connect"
    /\ ~worker[call[c].w].file
    /\ call' = [call EXCEPT ![c] = Returned(@)]
    /\ lastOutcome' = Outcome(c, Rejected("ENOENT"))
    /\ UNCHANGED <<otherVars, config, starts, currentWorker, workerPromise, tasksProcessed, onRecycle, worker,
                   terminatingWorkers, sock, awaiting, mq, stop, stopped, crashes>>


\* -------------------------------------------- WorkerProcess.compute()
\* What each handler of the promise does: whether the timer stays armed, and
\* the outcome it passes to resolve() or reject().
\* the setTimeout callback: reject(new ComputeTimeoutError(...))
OnTimer(cr) == [timer |-> FALSE, out |-> Rejected("ComputeTimeoutError")]

\* a faulty variant of OnOutput: the timer is not cleared
OnOutputKeepsTimer(cr, v) == [timer |-> cr.timer, out |-> Resolved(v)]

\* waitForOutput(socket).then(value => { clearTimeout(timer); resolve(value) })
OnOutput(cr, v) == [timer |-> FALSE, out |-> Resolved(v)]

\* waitForOutput(socket) rejected (JSON.parse of a cut response): error => reject(error)
OnOutputError(cr) == [timer |-> cr.timer, out |-> Rejected("SyntaxError")]

\* socket.once('error', error => { clearTimeout(timer); reject(error) })
OnSocketError(cr) == [timer |-> FALSE, out |-> Rejected("SocketError")]

\* the handle after an event on call c: the finally block runs when the
\* promise settles
AfterEvent(c) ==
    IF call[c].pc = "wait"
    THEN [worker EXCEPT ![call[c].w] = TaskFinished(@)]
    ELSE worker

\* A handler ran for call c.  The promise settles once: resolve() and reject()
\* of a settled promise do nothing.  NodeRunner.compute() returns the value
\* or rethrows the error (none of these errors has code ECONNREFUSED).
Deliver(c, h) ==
    /\ call' = [call EXCEPT ![c] =
                  IF @.pc = "wait" THEN Returned([@ EXCEPT !.timer = h.timer])
                  ELSE [@ EXCEPT !.timer = h.timer]]
    /\ lastOutcome' = IF call[c].pc = "wait"
                      THEN Outcome(c, h.out) ELSE lastOutcome
    /\ worker' = AfterEvent(c)

\* the response arrives complete (EOF read); the value is the parsed document
Receive(c) ==
    /\ mq = <<>>
    /\ call[c].pc \in {"wait", "done"}
    /\ call[c].sk # 0
    /\ sock[call[c].sk].st = "responded"
    /\ Deliver(c, OnOutput(call[c], sock[call[c].sk].resp))
    /\ sock' = BreakDead([sock EXCEPT ![call[c].sk] = ClosedSock], AfterEvent(c))
    /\ UNCHANGED <<otherVars, config, starts, currentWorker, workerPromise, tasksProcessed, onRecycle,
                   terminatingWorkers, awaiting, mq, stop, stopped, crashes>>

\* the task's timer fires
TimerFire(c) ==
    /\ mq = <<>>
    /\ call[c].timer
    /\ Deliver(c, OnTimer(call[c]))
    /\ sock' = BreakDead(sock, AfterEvent(c))
    /\ UNCHANGED <<otherVars, config, starts, currentWorker, workerPromise, tasksProcessed, onRecycle,
                   terminatingWorkers, awaiting, mq, stop, stopped, crashes>>

\* the connection broke (the child is gone): either an 'error' event on the
\* socket, or EOF on a cut response that JSON.parse rejects
SocketBroken(c) ==
    /\ mq = <<>>
    /\ call[c].pc \in {"wait", "done"}
    /\ call[c].sk # 0
    /\ sock[call[c].sk].st = "broken"
    /\ \/ Deliver(c, OnSocketError(call[c]))
       \/ Deliver(c, OnOutputError(call[c]))
    /\ sock' = BreakDead([sock EXCEPT ![call[c].sk] = ClosedSock], AfterEvent(c))
    /\ UNCHANGED <<otherVars, config, starts, currentWorker, workerPromise, tasksProcessed, onRecycle,
                   terminatingWorkers, awaiting, mq, stop, stopped, crashes>>

\* ---------------------------------------------- the worker's IPC server
\* the response document serveClient() writes for a request
Reply(req, kind) == [task |-> req, what |-> kind]

\* serveClient(): read the request, import and run the module, write the
\* response ("result", or "error" when decode, import or compute threw),
\* close the connection
Serve(s) ==
    /\ mq = <<>>
    /\ sock[s].st = "open"
    /\ Alive(worker[sock[s].w])
    /\ \E kind \in {"result", "error"} :
          sock' = [sock EXCEPT ![s] = [@ EXCEPT !.st = "responded",
                                                !.resp = Reply(sock[s].req, kind)]]
    /\ UNCHANGED <<otherVars, config, starts, currentWorker, workerPromise, tasksProcessed, onRecycle, worker,
                   terminatingWorkers, call, awaiting, mq, stop, stopped,
                   lastOutcome, crashes>>

\* server.listen(socketFile)
WorkerListen(w) ==
    /\ mq = <<>>
    /\ worker[w].st = "starting"
    /\ worker' = [worker EXCEPT ![w] = [@ EXCEPT !.st = "listening", !.file = TRUE]]
    /\ UNCHANGED <<otherVars, config, starts, currentWorker, workerPromise, tasksProcessed, onRecycle,
                   terminatingWorkers, call, sock, awaiting, mq, stop, stopped,
                   lastOutcome, crashes>>

\* server.close(() => process.exit(0)): the connections have drained
WorkerExit(w) ==
    /\ mq = <<>>
    /\ worker[w].st = "closing"
    /\ \A s \in Calls : ~(sock[s].st = "open" /\ sock[s].w = w)
    /\ worker' = [worker EXCEPT ![w] = [@ EXCEPT !.st = "exited", !.code = 0]]
    /\ UNCHANGED <<otherVars, config, starts, currentWorker, workerPromise, tasksProcessed, onRecycle,
                   terminatingWorkers, call, sock, awaiting, mq, stop, stopped,
                   lastOutcome, crashes>>

\* the kernel ends a signalled child: no exit code, and whatever socket file
\* it had stays behind
Die(w) ==
    /\ mq = <<>>
    /\ worker[w].st = "dying"
    /\ worker' = [worker EXCEPT ![w] = [@ EXCEPT !.st = "exited"]]
    /\ sock' = BreakDead(sock, worker')
    /\ UNCHANGED <<otherVars, config, starts, currentWorker, workerPromise, tasksProcessed, onRecycle,
                   terminatingWorkers, call, awaiting, mq, stop, stopped, lastOutcome,
                   crashes>>

\* the child crashes (exit code 1); its socket file stays behind
Crash(w) ==
    /\ mq = <<>>
    /\ crashes < MaxCrashes
    /\ worker[w].st = "listening"
    /\ crashes' = crashes + 1
    /\ worker' = [worker EXCEPT ![w] = [@ EXCEPT !.st = "exited", !.code = 1]]
    /\ sock' = BreakDead(sock, worker')
    /\ UNCHANGED <<otherVars, config, starts, currentWorker, workerPromise, tasksProcessed, onRecycle,
                   terminatingWorkers, call, awaiting, mq, stop, stopped, lastOutcome>>

\* ------------------------------------------------ spawnWorker(), exit
\* waitForReady() saw the socket file: onSpawn, the onProcessExit listener,
\* `this.currentWorker = ...`, and the promise is fulfilled: the start()
\* calls awaiting it return
SpawnReady(w) ==
    /\ mq = <<>>
    /\ worker[w].spawn = "pending"
    /\ worker[w].file
    /\ worker' = [worker EXCEPT ![w] = [@ EXCEPT !.spawn = "ready"]]
    /\ currentWorker' = w
    /\ mq' = Waiters(w)
    /\ awaiting' = NotWaiters(w)
    /\ starts' = [starts EXCEPT ![w] = 0]
    /\ UNCHANGED <<otherVars, config, workerPromise, tasksProcessed, onRecycle, terminatingWorkers,
                   call, sock, stop, stopped, lastOutcome, crashes>>

\* waitForReady() timed out: the promise is rejected with WorkerError, which
\* the start() calls awaiting it throw
SpawnTimeout(w) ==
    /\ mq = <<>>
    /\ worker[w].spawn = "pending"
    /\ ~worker[w].file
    /\ worker' = [worker EXCEPT ![w] = [@ EXCEPT !.spawn = "failed"]]
    /\ mq' = Waiters(w)
    /\ awaiting' = NotWaiters(w)
    /\ starts' = [starts EXCEPT ![w] = 0]
    /\ UNCHANGED <<otherVars, config, currentWorker, workerPromise, tasksProcessed, onRecycle,
                   terminatingWorkers, call, sock, stop, stopped, lastOutcome, crashes>>

\* stop() returns when every terminate() it awaits has resolved
StopAfter(sr, w) ==
    IF sr.st = "waiting" /\ w \in sr.wait
    THEN [st |-> IF sr.wait = {w} THEN "returned" ELSE "waiting", wait |-> sr.wait \ {w}]
    ELSE sr

\* a faulty variant of OnProcessExit: the exited handle is kept
OnProcessExitKeeps(cw, wp, w) == [cw |-> cw, wp |-> wp]

\* the listener spawnWorker() registers on onProcessExit: the runner's
\* fields after handle w exited
OnProcessExit(cw, wp, w) ==
    IF cw = w THEN [cw |-> 0, wp |-> 0] ELSE [cw |-> cw, wp |-> wp]

\* the child's 'exit' event: the constructor's listener (registry, then
\* onProcessExit and with it the crash listener spawnWorker() registered once
\* the handle was ready), then terminate()'s.  dropped records that the
\* event was handled while the handle was the current one.
ExitEvent(w) ==
    /\ mq = <<>>
    /\ worker[w].st = "exited"
    /\ ~worker[w].notified
    /\ worker' = [worker EXCEPT ![w] =
                    [@ EXCEPT !.notified = TRUE,
                              !.dropped = @ \/ (worker[w].spawn = "ready" /\ currentWorker = w)]]
    /\ terminatingWorkers' = terminatingWorkers \ {w}
    /\ IF worker[w].spawn = "ready"
       THEN /\ currentWorker' = OnProcessExit(currentWorker, workerPromise, w).cw
            /\ workerPromise' = OnProcessExit(currentWorker, workerPromise, w).wp
       ELSE UNCHANGED <<currentWorker, workerPromise>>
    /\ stop' = [s \in Stops |-> StopAfter(stop[s], w)]
    /\ UNCHANGED <<otherVars, config, starts, tasksProcessed, onRecycle, call, sock, awaiting, mq, stopped,
                   lastOutcome, crashes>>

\* ------------------------------------------------------------- stop()
\* stop(): release the current worker, schedule its termination, and
\* terminate() every handle of the registry: SIGTERM unless exitCode is set
Stop(s) ==
    /\ stop[s].st = "idle"
    /\ \A r \in Stops : r < s => stop[r].st # "idle"
    /\ LET cw == currentWorker
           wk == IF cw # 0 THEN [worker EXCEPT ![cw] = ScheduleTermination(@)] ELSE worker
           tw == IF cw # 0 /\ ~worker[cw].terminating
                 THEN terminatingWorkers \cup {cw} ELSE terminatingWorkers
           wait == {t \in tw : ExitCode(wk[t]) = -1}
       IN  /\ currentWorker' = 0
           /\ workerPromise' = 0
           /\ terminatingWorkers' = tw
           /\ worker' = [t \in Workers |->
                            IF t \in wait THEN Signalled(wk[t], "SIGTERM") ELSE wk[t]]
           /\ sock' = BreakDead(sock, worker')
           /\ stop' = [stop EXCEPT ![s] =
                         [st |-> IF wait = {} THEN "returned" ELSE "waiting", wait |-> wait]]
    /\ stopped' = TRUE
    /\ UNCHANGED <<otherVars, config, starts, tasksProcessed, onRecycle, call, awaiting, mq, lastOutcome, crashes>>

\* terminate()'s kill timer: SIGKILL if exitCode is still null, then resolve
KillTimer(s, w) ==
    /\ mq = <<>>
    /\ stop[s].st = "waiting"
    /\ w \in stop[s].wait
    /\ worker' = [worker EXCEPT ![w] =
                    IF ExitCode(@) = -1 THEN Signalled(@, "SIGKILL") ELSE @]
    /\ sock' = BreakDead(sock, worker')
    /\ stop' = [stop EXCEPT ![s] = StopAfter(@, w)]
    /\ UNCHANGED <<otherVars, config, starts, currentWorker, workerPromise, tasksProcessed, onRecycle,
                   terminatingWorkers, call, awaiting, mq, stopped, lastOutcome, crashes>>

\* ------------------------------------------------------ specification
Next ==
    \/ Start
    \/ \E c \in Calls : Compute(c)
    \/ Resume
    \/ \E c \in Calls : ConnectOk(c)
    \/ \E c \in Calls : ConnectRefused(c)
    \/ \E c \in Calls : ConnectNoEnt(c)
    \/ \E c \in Calls : Receive(c)
    \/ \E c \in Calls : TimerFire(c)
    \/ \E c \in Calls : SocketBroken(c)
    \/ \E s \in Calls : Serve(s)
    \/ \E w \in Workers : WorkerListen(w)
    \/ \E w \in Workers : WorkerExit(w)
    \/ \E w \in Workers : Crash(w)
    \/ \E w \in Workers : Die(w)
    \/ \E w \in Workers : SpawnReady(w)
    \/ \E w \in Workers : SpawnTimeout(w)
    \/ \E w \in Workers : ExitEvent(w)
    \/ \E s \in Stops : Stop(s)
    \/ \E s \in Stops, w \in Workers : KillTimer(s, w)

Spec == Init /\ [][Next]_vars

\* the runner when stop() is never called; without terminate() no child is
\* signalled twice or while it serves, so no child is ended by a signal and
\* no socket file is removed under a connecting call
RecycleNext ==
    \/ Start
    \/ \E c \in Calls : Compute(c)
    \/ Resume
    \/ \E c \in Calls : ConnectOk(c)
    \/ \E c \in Calls : ConnectRefused(c)
    \/ \E c \in Calls : Receive(c)
    \/ \E c \in Calls : TimerFire(c)
    \/ \E c \in Calls : SocketBroken(c)
    \/ \E s \in Calls : Serve(s)
    \/ \E w \in Workers : WorkerListen(w)
    \/ \E w \in Workers : WorkerExit(w)
    \/ \E w \in Workers : Crash(w)
    \/ \E w \in Workers : SpawnReady(w)
    \/ \E w \in Workers : SpawnTimeout(w)
    \/ \E w \in Workers : ExitEvent(w)

\* The host's event loop runs the microtasks there are and then handles the
\* events that are due: connect outcomes, responses, timers, exit events,
\* readiness polls.  The child listens once forked and exits once its
\* server has closed; the kernel ends a signalled child.  How long a task
\* takes to be served is up to the module it runs: no fairness for Serve.
RecycleFairness ==
    /\ WF_vars(Resume)
    /\ \A c \in Calls :
          /\ WF_vars(ConnectOk(c) \/ ConnectRefused(c))
          /\ WF_vars(Receive(c))
          /\ WF_vars(TimerFire(c))
          /\ WF_vars(SocketBroken(c))
    /\ \A w \in Workers :
          /\ WF_vars(WorkerListen(w))
          /\ WF_vars(WorkerExit(w))
          /\ WF_vars(SpawnReady(w) \/ SpawnTimeout(w))
          /\ WF_vars(ExitEvent(w))

RecycleSpec == Init /\ [][RecycleNext]_vars /\ RecycleFairness


\* ================================================ the pooled NodeRunner
\* WorkerProcess.create() of this runner is awaited by spawnWorker(); it is
\* taken to fork the child and to wait for its socket file as waitForReady()
\* does: it resolves with a ready handle or rejects with WorkerError.
FreshHandles(hs) == {h \in PoolHandles : hs[h].st = "none"}

\* the next n handles
NewHandles(hs, n) ==
    {h \in FreshHandles(hs) : Cardinality({g \in FreshHandles(hs) : g < h}) < n}

\* populatePool(): the number of spawnWorker() calls of its for loop
Missing(wp) == IF Len(wp) < WorkerPoolSize THEN WorkerPoolSize - Len(wp) ELSE 0

\* a faulty variant of PopulatePool: the populating flag is not looked at
PopulatePoolUnguarded(pop, bt, wp, hs) ==
    IF Missing(wp) = 0
    THEN [populating |-> pop, batch |-> bt, hs |-> hs]
    ELSE [populating |-> TRUE,
          batch |-> bt \cup {NewHandles(hs, Missing(wp))},
          hs |-> [h \in PoolHandles |->
                    IF h \in NewHandles(hs, Missing(wp))
                    THEN [hs[h] EXCEPT !.st = "spawning"] ELSE hs[h]]]

\* populatePool() up to `await Promise.all(promises)`: nothing if a
\* populatePool() is in flight (or if there is nothing to spawn)
PopulatePool(pop, bt, wp, hs) ==
    IF pop \/ Missing(wp) = 0
    THEN [populating |-> pop, batch |-> bt, hs |-> hs]
    ELSE [populating |-> TRUE,
          batch |-> bt \cup {NewHandles(hs, Missing(wp))},
          hs |-> [h \in PoolHandles |->
                    IF h \in NewHandles(hs, Missing(wp))
                    THEN [hs[h] EXCEPT !.st = "spawning"] ELSE hs[h]]]

CanPopulate(pop, wp, hs) ==
    pop \/ Cardinality(FreshHandles(hs)) >= Missing(wp)

\* WorkerProcess.terminate(): SIGTERM unless the child has exited
Terminate(hs, h) ==
    IF hs[h].st = "up" THEN [hs EXCEPT ![h] = [@ EXCEPT !.st = "terminating"]] ELSE hs

\* grabWorker(): the loop, as far as it runs without awaiting: handles that
\* are not ready or past the recycle threshold are dropped; w = 0 when the
\* pool is drained
RECURSIVE GrabWorker(_, _, _)
GrabWorker(wp, hs, bg) ==
    IF wp = <<>>
    THEN [w |-> 0, pool |-> wp, hs |-> hs, bg |-> bg]
    ELSE IF ~hs[Head(wp)].ready
    THEN GrabWorker(Tail(wp), hs, TRUE)
    ELSE IF hs[Head(wp)].tasksProcessed > WorkerRecycleThreshold
    THEN GrabWorker(Tail(wp), Terminate(hs, Head(wp)), TRUE)
    ELSE [w |-> Head(wp), pool |-> Append(Tail(wp), Head(wp)), hs |-> hs, bg |-> bg]

\* call c runs grabWorker()'s loop; rest is the microtask queue without c.
\* With a handle, compute() goes on to worker.compute() (tasksProcessed += 1)
\* and is served until that settles.
\* With the pool drained it awaits populatePool(): the one it started, or,
\* when one is in flight, a promise that is already resolved.
Acquire(c, rest) ==
    LET g == GrabWorker(workerPool, poolWorker, background)
        p == PopulatePool(populating, batch, g.pool, g.hs)
    IN  /\ workerPool' = g.pool
        /\ background' = g.bg
        /\ IF g.w # 0
           THEN /\ poolWorker' = [g.hs EXCEPT ![g.w] =
                                    [@ EXCEPT !.tasksProcessed = @ + 1]]
                /\ grab' = [grab EXCEPT ![c] =
                              [@ EXCEPT !.pc = "serving", !.out = "worker", !.w = g.w]]
                /\ micro' = rest
                /\ UNCHANGED <<populating, batch>>
           ELSE /\ CanPopulate(populating, g.pool, g.hs)
                /\ poolWorker' = p.hs
                /\ populating' = p.populating
                /\ batch' = p.batch
                /\ grab' = [grab EXCEPT ![c] =
                              [@ EXCEPT !.pc = IF populating THEN "spin" ELSE "populate",
                                        !.iter = 1 - @]]
                /\ micro' = IF populating THEN Append(rest, c) ELSE rest

\* start(), up to `await mkdir(...)`
PoolStart ==
    /\ ~running
    /\ running' = TRUE
    /\ mkdirPending' = TRUE
    /\ UNCHANGED <<runnerVars, queueVars, serverVars, twoVars, frameVars, populating, workerPool, poolWorker, batch, grab, micro,
                   background, poolCrashes, poolStops>>

\* start(), after mkdir: populatePool()
PoolMkdirDone ==
    /\ micro = <<>>
    /\ mkdirPending
    /\ mkdirPending' = FALSE
    /\ CanPopulate(populating, workerPool, poolWorker)
    /\ LET p == PopulatePool(populating, batch, workerPool, poolWorker)
       IN  /\ populating' = p.populating
           /\ batch' = p.batch
           /\ poolWorker' = p.hs
    /\ UNCHANGED <<runnerVars, queueVars, serverVars, twoVars, frameVars, running, workerPool, grab, micro, background, poolCrashes, poolStops>>

\* stop(): the pool is emptied, its handles terminated
PoolStop ==
    /\ running
    /\ poolStops < MaxPoolStops
    /\ poolStops' = poolStops + 1
    /\ running' = FALSE
    /\ workerPool' = <<>>
    /\ poolWorker' = [h \in PoolHandles |->
                        IF \E i \in 1..Len(workerPool) : workerPool[i] = h
                        THEN Terminate(poolWorker, h)[h] ELSE poolWorker[h]]
    /\ UNCHANGED <<runnerVars, queueVars, serverVars, twoVars, frameVars, populating, batch, grab, micro, background, mkdirPending,
                   poolCrashes>>

\* compute(task): the running check, then grabWorker()
PoolCompute(c) ==
    /\ grab[c].pc = "new"
    /\ \A d \in PoolCalls : d < c => grab[d].pc # "new"
    /\ IF ~running
       THEN /\ grab' = [grab EXCEPT ![c] =
                          [@ EXCEPT !.pc = "done", !.out = "InvalidStateError"]]
            /\ UNCHANGED <<populating, workerPool, poolWorker, batch, micro, background>>
       ELSE Acquire(c, micro)
    /\ UNCHANGED <<runnerVars, queueVars, serverVars, twoVars, frameVars, running, mkdirPending, poolCrashes, poolStops>>

\* grabWorker() resumed after `await this.populatePool()`: continue
PoolResume ==
    /\ micro # <<>>
    /\ Acquire(Head(micro), Tail(micro))
    /\ UNCHANGED <<runnerVars, queueVars, serverVars, twoVars, frameVars, running, mkdirPending, poolCrashes, poolStops>>

\* the calls awaiting the populatePool() in flight, which they started
Populators == {c \in PoolCalls : grab[c].pc = "populate" /\ \A i \in 1..Len(micro) : micro[i] # c}

RECURSIVE InOrder(_)
InOrder(S) ==
    IF S = {} THEN <<>>
    ELSE LET m == CHOOSE x \in S : \A y \in S : x <= y
         IN  <<m>> \o InOrder(S \ {m})

\* the populatePool() body that is creating handle h
BatchOf(h) == CHOOSE b \in batch : h \in b

\* create() of handle h resolves; with it the last of its batch,
\* populatePool() pushes the batch to the pool and its caller resumes
PoolSpawnReady(h) ==
    /\ micro = <<>>
    /\ \E b \in batch : h \in b
    /\ poolWorker[h].st = "spawning"
    /\ poolWorker' = [poolWorker EXCEPT ![h] = [@ EXCEPT !.st = "up", !.ready = TRUE]]
    /\ IF \A g \in BatchOf(h) \ {h} : poolWorker[g].st # "spawning"
       THEN /\ workerPool' = workerPool \o InOrder(BatchOf(h))
            /\ populating' = FALSE
            /\ batch' = batch \ {BatchOf(h)}
            /\ micro' = InOrder(Populators)
       ELSE UNCHANGED <<workerPool, populating, batch, micro>>
    /\ UNCHANGED <<runnerVars, queueVars, serverVars, twoVars, frameVars, running, grab, background, mkdirPending, poolCrashes, poolStops>>

\* create() of handle h rejects (readiness timeout): Promise.all rejects,
\* populatePool() throws and so does the compute() call awaiting it
PoolSpawnTimeout(h) ==
    /\ micro = <<>>
    /\ poolCrashes < MaxPoolCrashes
    /\ poolCrashes' = poolCrashes + 1
    /\ \E b \in batch : h \in b
    /\ poolWorker[h].st = "spawning"
    /\ poolWorker' = [poolWorker EXCEPT ![h] = [@ EXCEPT !.st = "failed"]]
    /\ populating' = FALSE
    /\ batch' = batch \ {BatchOf(h)}
    /\ grab' = [c \in PoolCalls |->
                  IF c \in Populators
                  THEN [grab[c] EXCEPT !.pc = "done", !.out = "WorkerError"]
                  ELSE grab[c]]
    /\ UNCHANGED <<runnerVars, queueVars, serverVars, twoVars, frameVars, running, workerPool, micro, background, mkdirPending,
                   poolStops>>

\* the child of a handle exits: the handle's exit listener clears ready
PoolCrash(h) ==
    /\ micro = <<>>
    /\ poolCrashes < MaxPoolCrashes
    /\ poolWorker[h].st = "up"
    /\ poolCrashes' = poolCrashes + 1
    /\ poolWorker' = [poolWorker EXCEPT ![h] = [@ EXCEPT !.st = "exited", !.ready = FALSE]]
    /\ UNCHANGED <<runnerVars, queueVars, serverVars, twoVars, frameVars, running, populating, workerPool, batch, grab, micro,
                   background, mkdirPending, poolStops>>

\* worker.compute(task) settles and compute() returns or throws
PoolFinish(c) ==
    /\ micro = <<>>
    /\ grab[c].pc = "serving"
    /\ grab' = [grab EXCEPT ![c] = [@ EXCEPT !.pc = "done"]]
    /\ UNCHANGED <<runnerVars, queueVars, serverVars, twoVars, frameVars, running, populating, workerPool, poolWorker, batch,
                   micro, background, mkdirPending, poolCrashes, poolStops>>

\* the timer of populateInBackground(): populatePool()
PoolTimer ==
    /\ micro = <<>>
    /\ background
    /\ background' = FALSE
    /\ CanPopulate(populating, workerPool, poolWorker)
    /\ LET p == PopulatePool(populating, batch, workerPool, poolWorker)
       IN  /\ populating' = p.populating
           /\ batch' = p.batch
           /\ poolWorker' = p.hs
    /\ UNCHANGED <<runnerVars, queueVars, serverVars, twoVars, frameVars, running, workerPool, grab, micro, mkdirPending, poolCrashes, poolStops>>

PoolNext ==
    \/ PoolStart
    \/ PoolMkdirDone
    \/ PoolStop
    \/ \E c \in PoolCalls : PoolCompute(c)
    \/ PoolResume
    \/ \E h \in PoolHandles : PoolSpawnReady(h)
    \/ \E h \in PoolHandles : PoolSpawnTimeout(h)
    \/ \E h \in PoolHandles : PoolCrash(h)
    \/ \E c \in PoolCalls : PoolFinish(c)
    \/ PoolTimer

\* the single-worker runner stays as constructed
PoolSpecInit ==
    /\ Init
    /\ config = [retries |-> 0, recycleThreshold |-> 1]

\* the event loop runs the microtasks there are, then the timers and the
\* I/O events that are due
PoolFairness ==
    /\ WF_vars(PoolResume)
    /\ WF_vars(PoolMkdirDone)
    /\ WF_vars(PoolTimer)
    /\ \A h \in PoolHandles : WF_vars(PoolSpawnReady(h) \/ PoolSpawnTimeout(h))

PoolSpec == PoolSpecInit /\ [][PoolNext]_vars /\ PoolFairness


\* ------------------------------------------------------------ WorkerQueue
\* remove(arr, item)
Remove(arr, item) == SelectSeq(arr, LAMBDA x : x # item)

\* Array.shift() on a non-empty array: the first element and the rest
ShiftLast(arr) == [item |-> arr[Len(arr)], rest |-> SubSeq(arr, 1, Len(arr) - 1)]

Shift(arr) == [item |-> Head(arr), rest |-> Tail(arr)]

\* resolve() or reject() of a promise: only the first one counts
Settle(t, r) == IF t.out = "none" THEN [t EXCEPT !.out = r] ELSE t

\* the callback of createDeferredTask(), called with a worker: the timer is
\* cleared and worker.compute(task) begins
CallbackKeepsTimer(t, w) == [t EXCEPT !.pc = "running", !.w = w]

Callback(t, w) == [t EXCEPT !.pc = "running", !.w = w, !.timer = FALSE]

\* workers are numbered in the order they are forked
NextWorker(ws) == CHOOSE w \in QueueWorkers :
    /\ ws[w] = "none"
    /\ \A v \in QueueWorkers : ws[v] = "none" => w <= v

\* spawnWorker(): the backlog is served first, else the worker is idle
SpawnWorker(q) ==
    LET w == NextWorker(q.workers)
        ws == [q.workers EXCEPT ![w] = "alive"]
    IN  IF q.queue # <<>>
        THEN LET queued == Shift(q.queue)
             IN  [idle |-> q.idle, queue |-> queued.rest, workers |-> ws,
                  tasks |-> [q.tasks EXCEPT ![queued.item] = Callback(@, w)]]
        ELSE [idle |-> Append(q.idle, w), queue |-> q.queue, workers |-> ws,
              tasks |-> q.tasks]

\* ensureCapacity(): spawn until the idle list is full
RECURSIVE EnsureCapacity(_)
EnsureCapacity(q) ==
    IF Len(q.idle) < workersCount THEN EnsureCapacity(SpawnWorker(q)) ELSE q

\* the number of workers ensureCapacity() forks, within the workers modelled
CanEnsure(idle, queue) ==
    \/ Len(idle) >= workersCount
    \/ (workersCount - Len(idle)) + Len(queue)
           <= Cardinality({w \in QueueWorkers : qworker[w] = "none"})

\* WorkerProcess.terminate(): SIGTERM (then SIGKILL) unless it has exited
QueueTerminate(ws, w) == IF ws[w] = "alive" THEN [ws EXCEPT ![w] = "signalled"] ELSE ws

\* start()
QueueStart ==
    /\ ~queueRunning
    /\ CanEnsure(idleWorkers, taskQueue)
    /\ queueRunning' = TRUE
    /\ LET q == EnsureCapacity([idle |-> idleWorkers, queue |-> taskQueue,
                                workers |-> qworker, tasks |-> qtask])
       IN  /\ idleWorkers' = q.idle
           /\ taskQueue' = q.queue
           /\ qworker' = q.workers
           /\ qtask' = q.tasks
    /\ UNCHANGED <<runnerVars, poolVars, serverVars, twoVars, frameVars, workersCount, capacityTimers, queueCrashes, queueStops>>

\* stop(force)
QueueStop(force) ==
    /\ queueStops < MaxQueueStops
    /\ queueStops' = queueStops + 1
    /\ queueRunning' = FALSE
    /\ idleWorkers' = <<>>
    /\ qworker' = IF force
                  THEN [w \in QueueWorkers |->
                           IF \E i \in 1..Len(idleWorkers) : idleWorkers[i] = w
                           THEN QueueTerminate(qworker, w)[w] ELSE qworker[w]]
                  ELSE qworker
    /\ UNCHANGED <<runnerVars, poolVars, serverVars, twoVars, frameVars, workersCount, taskQueue, qtask, capacityTimers,
                   queueCrashes>>

\* compute(task): calls are numbered in the order they are made
QueueCompute(c) ==
    /\ qtask[c].pc = "new"
    /\ \A d \in QueueCalls : d < c => qtask[d].pc # "new"
    /\ capacityTimers' = capacityTimers + 1
    /\ IF idleWorkers # <<>>
       THEN /\ idleWorkers' = Shift(idleWorkers).rest
            /\ qtask' = [qtask EXCEPT ![c] = [@ EXCEPT !.pc = "running",
                                                       !.w = Shift(idleWorkers).item]]
            /\ UNCHANGED taskQueue
       ELSE \* createDeferredTask(task)
            /\ qtask' = [qtask EXCEPT ![c] = [@ EXCEPT !.pc = "queued", !.deferred = TRUE,
                                                       !.timer = TRUE]]
            /\ taskQueue' = Append(taskQueue, c)
            /\ UNCHANGED idleWorkers
    /\ UNCHANGED <<runnerVars, poolVars, serverVars, twoVars, frameVars, workersCount, queueRunning, qworker, queueCrashes,
                   queueStops>>

\* the timer compute() sets: ensureCapacity()
QueueCapacityTimer ==
    /\ capacityTimers > 0
    /\ CanEnsure(idleWorkers, taskQueue)
    /\ capacityTimers' = capacityTimers - 1
    /\ LET q == EnsureCapacity([idle |-> idleWorkers, queue |-> taskQueue,
                                workers |-> qworker, tasks |-> qtask])
       IN  /\ idleWorkers' = q.idle
           /\ taskQueue' = q.queue
           /\ qworker' = q.workers
           /\ qtask' = q.tasks
    /\ UNCHANGED <<runnerVars, poolVars, serverVars, twoVars, frameVars, workersCount, queueRunning, queueCrashes, queueStops>>

\* the queue-wait timer of a deferred call fires
QueueWaitTimer(c) ==
    /\ qtask[c].timer
    /\ qtask' = [qtask EXCEPT ![c] =
                    [Settle(@, "QueueTimeoutError") EXCEPT
                        !.timer = FALSE,
                        !.pc = IF @ = "queued" THEN "timedout" ELSE @]]
    /\ taskQueue' = Remove(taskQueue, c)
    /\ UNCHANGED <<runnerVars, poolVars, serverVars, twoVars, frameVars, workersCount, queueRunning, idleWorkers, qworker,
                   capacityTimers, queueCrashes, queueStops>>

\* WorkerProcess.compute(task) ends, with the output or with a
\* ComputeTimeoutError; the worker is terminated
QueueFinish(c, r) ==
    /\ qtask[c].pc = "running"
    /\ qtask' = [qtask EXCEPT ![c] = [Settle(@, r) EXCEPT !.pc = "done"]]
    /\ qworker' = QueueTerminate(qworker, qtask[c].w)
    /\ UNCHANGED <<runnerVars, poolVars, serverVars, twoVars, frameVars, workersCount, queueRunning, idleWorkers, taskQueue,
                   capacityTimers, queueCrashes, queueStops>>

\* a child exits: after a signal, or on its own
QueueExit(w) ==
    /\ \/ qworker[w] = "signalled" /\ UNCHANGED queueCrashes
       \/ /\ qworker[w] = "alive"
          /\ queueCrashes < MaxQueueCrashes
          /\ queueCrashes' = queueCrashes + 1
    /\ qworker' = [qworker EXCEPT ![w] = "exited"]
    /\ idleWorkers' = Remove(idleWorkers, w)
    /\ UNCHANGED <<runnerVars, poolVars, serverVars, twoVars, frameVars, workersCount, queueRunning, taskQueue, qtask,
                   capacityTimers, queueStops>>

QueueNext ==
    \/ QueueStart
    \/ \E force \in BOOLEAN : QueueStop(force)
    \/ \E c \in QueueCalls : QueueCompute(c)
    \/ QueueCapacityTimer
    \/ \E c \in QueueCalls : QueueWaitTimer(c)
    \/ \E c \in QueueCalls, r \in {"result", "ComputeTimeoutError"} :
           QueueFinish(c, r)
    \/ \E w \in QueueWorkers : QueueExit(w)

\* the queue under every config.workersCount tried; the other programs
\* stay as constructed
QueueSpecInit ==
    /\ RunnerInit
    /\ config = [retries |-> 0, recycleThreshold |-> 1]
    /\ PoolInit
    /\ QueueInit
    /\ workersCount \in 0..MaxWorkersCount
    /\ ServerInit
    /\ TwoInit
    /\ FrameInit

QueueSpec == QueueSpecInit /\ [][QueueNext]_vars


\* ------------------------------------------------- serveClient()
\* what a module's import or compute() can throw: an Error object, another
\* value that has properties to read (a string, a number, an object), or
\* null / undefined
Thrown == {"Error", "value", "nullish"}

\* the catch block: it reads error.name, error.message and error.status and
\* writes the error document with socket.end(); reading a property of null
\* or undefined throws a TypeError, which leaves the catch block with
\* nothing written
Catch(cr, v) ==
    IF v = "nullish"
    THEN [cr EXCEPT !.pc = "finalizing", !.threw = TRUE, !.escaped = TRUE]
    ELSE [cr EXCEPT !.pc = "finalizing", !.threw = TRUE,
                    !.docs = Append(@, "error"), !.ended = TRUE]

\* a connection is accepted: serveClient() up to `await readStream(socket)`
ServerAccept(k) ==
    /\ conn[k].pc = "none"
    /\ \A j \in Conns : j < k => conn[j].pc # "none"
    /\ conn' = [conn EXCEPT ![k] = [@ EXCEPT !.pc = "reading"]]
    /\ UNCHANGED <<runnerVars, poolVars, queueVars, twoVars, frameVars>>

\* readStream() settles: the payload is parsed and the import begins, or
\* the read or JSON.parse threw (an Error)
ServerRead(k, r) ==
    /\ conn[k].pc = "reading"
    /\ conn' = [conn EXCEPT ![k] =
                  IF r = "ok" THEN [@ EXCEPT !.pc = "importing"] ELSE Catch(@, r)]
    /\ UNCHANGED <<runnerVars, poolVars, queueVars, twoVars, frameVars>>

\* import(moduleUrl) settles: compute(params, ctx) begins, or the import
\* rejected with what the module threw
ServerImport(k, r) ==
    /\ conn[k].pc = "importing"
    /\ conn' = [conn EXCEPT ![k] =
                  IF r = "ok" THEN [@ EXCEPT !.pc = "computing"] ELSE Catch(@, r)]
    /\ UNCHANGED <<runnerVars, poolVars, queueVars, twoVars, frameVars>>

\* compute() settles: the result is written with socket.end(), or
\* JSON.stringify threw (an Error), or compute() threw
ServerCompute(k, r) ==
    /\ conn[k].pc = "computing"
    /\ conn' = [conn EXCEPT ![k] =
                  IF r = "ok"
                  THEN [@ EXCEPT !.pc = "finalizing", !.docs = Append(@, "success"),
                                 !.ended = TRUE]
                  ELSE Catch(@, r)]
    /\ UNCHANGED <<runnerVars, poolVars, queueVars, twoVars, frameVars>>

\* the finally block: `await ctx.finalize()`; serveClient() returns, or
\* rejects with the exception that left the catch block
ServerFinalize(k) ==
    /\ conn[k].pc = "finalizing"
    /\ conn' = [conn EXCEPT ![k] =
                  [@ EXCEPT !.finalized = @ + 1,
                            !.pc = IF conn[k].escaped THEN "rejected" ELSE "done"]]
    /\ UNCHANGED <<runnerVars, poolVars, queueVars, twoVars, frameVars>>

ServerNext ==
    \/ \E k \in Conns : ServerAccept(k)
    \/ \E k \in Conns, r \in {"ok", "Error"} : ServerRead(k, r)
    \/ \E k \in Conns, r \in {"ok"} \cup Thrown : ServerImport(k, r)
    \/ \E k \in Conns, r \in {"ok"} \cup Thrown : ServerCompute(k, r)
    \/ \E k \in Conns : ServerFinalize(k)

\* the other programs stay as constructed
ServerSpecInit ==
    /\ Init
    /\ config = [retries |-> 0, recycleThreshold |-> 1]

ServerSpec == ServerSpecInit /\ [][ServerNext]_vars


\* ------------------------------------- two runners in one host process
\* Each runner is a NodeRunner of its own; WorkerProcess.terminatingWorkers
\* is static, so there is one registry.  The waits inside a call are left
\* out here: a handle is ready when spawned and a dispatched task is in
\* flight until it settles.  Both runners have the same config.
TwoFresh == {w \in TwoWorkers : tworker[w].st = "none"}

NextTwoWorker == CHOOSE w \in TwoFresh : \A v \in TwoFresh : w <= v

\* ChildProcess.kill('SIGTERM') on a child that has not exited
TwoSigterm(wr) ==
    IF wr.st \in {"alive", "signalled"}
    THEN [wr EXCEPT !.st = "signalled", !.sigterms = @ + 1] ELSE wr

\* compute(task) of runner r: acquireWorker() (spawnWorker() when there is
\* no current worker), the recycle check, WorkerProcess.compute()
TwoCompute(r) ==
    /\ rtasks[r] < MaxTwoCalls
    /\ rcurrent[r] = 0 => TwoFresh # {}
    /\ rtasks' = [rtasks EXCEPT ![r] = @ + 1]
    /\ LET w == IF rcurrent[r] # 0 THEN rcurrent[r] ELSE NextTwoWorker
           spawned == IF rcurrent[r] # 0 THEN tworker
                      ELSE [tworker EXCEPT ![w] = [@ EXCEPT !.owner = r, !.st = "alive"]]
           rec == rtasks'[r] % config.recycleThreshold = 0
       IN  /\ rcurrent' = [rcurrent EXCEPT ![r] = IF rec THEN 0 ELSE w]
           /\ registry' = IF rec THEN registry \cup {w} ELSE registry
           /\ tworker' = [spawned EXCEPT ![w] =
                            [@ EXCEPT !.terminating = @ \/ rec, !.pending = @ + 1]]
    /\ UNCHANGED <<runnerVars, poolVars, queueVars, serverVars, frameVars, rstops>>

\* a task dispatched to handle w settles: the finally block of
\* WorkerProcess.compute() and the listener of scheduleTermination()
TwoFinish(w) ==
    /\ tworker[w].pending > 0
    /\ tworker' = [tworker EXCEPT ![w] =
                     LET d == [@ EXCEPT !.pending = @ - 1]
                     IN  IF d.terminating /\ d.pending = 0 THEN TwoSigterm(d) ELSE d]
    /\ UNCHANGED <<runnerVars, poolVars, queueVars, serverVars, frameVars, rcurrent, rtasks, rstops,
                   registry>>

\* stop() of runner r: its current worker is released and scheduled for
\* termination, then every handle of the registry is terminated
TwoStop(r) ==
    /\ rstops[r] < MaxTwoStops
    /\ rstops' = [rstops EXCEPT ![r] = @ + 1]
    /\ rcurrent' = [rcurrent EXCEPT ![r] = 0]
    /\ LET cw == rcurrent[r]
           reg == IF cw # 0 THEN registry \cup {cw} ELSE registry
       IN  /\ registry' = reg
           /\ tworker' = [w \in TwoWorkers |->
                 LET wr == IF w = cw THEN [tworker[w] EXCEPT !.terminating = TRUE]
                           ELSE tworker[w]
                 IN  IF w \in reg /\ wr.st # "exited"
                     THEN [TwoSigterm(wr) EXCEPT !.by = @ \cup {r}]
                     ELSE wr]
    /\ UNCHANGED <<runnerVars, poolVars, queueVars, serverVars, frameVars, rtasks>>

\* the child of handle w exits after a signal: the constructor's listener
\* and the listener spawnWorker() registered
TwoExit(w) ==
    /\ tworker[w].st = "signalled"
    /\ tworker' = [tworker EXCEPT ![w] = [@ EXCEPT !.st = "exited"]]
    /\ registry' = registry \ {w}
    /\ rcurrent' = [r \in Runners |-> IF rcurrent[r] = w THEN 0 ELSE rcurrent[r]]
    /\ UNCHANGED <<runnerVars, poolVars, queueVars, serverVars, frameVars, rtasks, rstops>>

TwoNext ==
    \/ \E r \in Runners : TwoCompute(r)
    \/ \E w \in TwoWorkers : TwoFinish(w)
    \/ \E r \in Runners : TwoStop(r)
    \/ \E w \in TwoWorkers : TwoExit(w)

\* the other programs stay as constructed; recycleThreshold is 1 or 2
TwoSpecInit ==
    /\ Init
    /\ config.retries = 0

TwoSpec == TwoSpecInit /\ [][TwoNext]_vars


\* ------------------------------------------------- the chunked stream
\* Bytes are one-character strings: the digits, the newline and a letter.
NEWLINE == "\n"
DigitChars == <<"0", "1", "2", "3", "4", "5", "6", "7", "8", "9">>
IsDigit(b) == \E d \in 1..10 : DigitChars[d] = b
DigitValue(b) == (CHOOSE d \in 1..10 : DigitChars[d] = b) - 1

\* the payloads tried: non-empty, of letters, digits and newlines
PayloadBytes == {"x", "1", NEWLINE}
Payloads == UNION {[1..n -> PayloadBytes] : n \in 1..MaxPayloadLen}

\* String(n) for a natural number n
RECURSIVE StringOf(_)
StringOf(n) ==
    IF n < 10 THEN <<DigitChars[n + 1]>>
    ELSE StringOf(n \div 10) \o <<DigitChars[(n % 10) + 1]>>

\* Number(text) for the texts that occur: the value of a string of digits,
\* 0 for the empty string, and NaN, here 0 as the code only tests
\* `!length`, for anything else
RECURSIVE NumberOf(_)
NumberOf(text) ==
    IF text = <<>> THEN 0
    ELSE IF \E i \in 1..Len(text) : ~IsDigit(text[i]) THEN 0
    ELSE NumberOf(SubSeq(text, 1, Len(text) - 1)) * 10 + DigitValue(text[Len(text)])

\* buffer.indexOf(NEWLINE), counted from 1; 0 when there is none
IndexOf(buf, b) ==
    IF \E i \in 1..Len(buf) : buf[i] = b
    THEN CHOOSE i \in 1..Len(buf) : buf[i] = b /\ \A j \in 1..(i - 1) : buf[j] # b
    ELSE 0

\* writeChunkStream(): the bytes written for a payload
Frame(payload) == StringOf(Len(payload)) \o <<NEWLINE>> \o payload

\* the body of consumeChunkedStream()'s loop for one chunk: the state it
\* leaves and the payload it yields, if any
ConsumeChunk(buf, len, chunk) ==
    LET b1 == buf \o chunk
        index == IndexOf(b1, NEWLINE)
        length == NumberOf(SubSeq(b1, 1, index - 1))
        b2 == SubSeq(b1, index + 1, Len(b1))
    IN  IF len = 0 /\ index = 0
        THEN [buffer |-> b1, payloadLength |-> 0, out |-> <<>>]
        ELSE IF len = 0 /\ length = 0
        THEN [buffer |-> b2, payloadLength |-> 0, out |-> <<>>]
        ELSE LET b == IF len = 0 THEN b2 ELSE b1
                 n == IF len = 0 THEN length ELSE len
             IN  IF Len(b) < n
                 THEN [buffer |-> b, payloadLength |-> n, out |-> <<>>]
                 ELSE [buffer |-> SubSeq(b, n + 1, Len(b)), payloadLength |-> 0,
                       out |-> <<SubSeq(b, 1, n)>>]

\* writeChunkStream(writeable, payload)
FrameWrite(payload) ==
    /\ ~ended
    /\ Len(written) < MaxPayloads
    /\ written' = Append(written, payload)
    /\ wire' = wire \o Frame(payload)
    /\ UNCHANGED <<runnerVars, poolVars, queueVars, serverVars, twoVars, buffer,
                   payloadLength, yielded, ended>>

\* the stream hands the reader the next n bytes as one chunk
FrameChunk(n) ==
    /\ ~ended
    /\ n \in 1..Len(wire)
    /\ LET r == ConsumeChunk(buffer, payloadLength, SubSeq(wire, 1, n))
       IN  /\ buffer' = r.buffer
           /\ payloadLength' = r.payloadLength
           /\ yielded' = yielded \o r.out
    /\ wire' = SubSeq(wire, n + 1, Len(wire))
    /\ UNCHANGED <<runnerVars, poolVars, queueVars, serverVars, twoVars, written, ended>>

\* the writer ends the stream; every byte has been delivered: the for await
\* loop ends and the generator returns
FrameEnd ==
    /\ ~ended
    /\ wire = <<>>
    /\ ended' = TRUE
    /\ UNCHANGED <<runnerVars, poolVars, queueVars, serverVars, twoVars, written, wire,
                   buffer, payloadLength, yielded>>

FrameNext ==
    \/ \E payload \in Payloads : FrameWrite(payload)
    \/ \E n \in 1..(MaxPayloads * (MaxPayloadLen + 2)) : FrameChunk(n)
    \/ FrameEnd

\* the other programs stay as constructed
FrameSpecInit ==
    /\ Init
    /\ config = [retries |-> 0, recycleThreshold |-> 1]

FrameSpec == FrameSpecInit /\ [][FrameNext]_vars


\* ================================================================ claims
AllReturned == \A c \in Calls : call[c].pc \in {"new", "done"}

\* no child crashed, no spawn timed out, stop() was not called
NoFault ==
    /\ crashes = 0
    /\ \A w \in Workers : worker[w].spawn # "failed"
    /\ \A s \in Stops : stop[s].st = "idle"

\* C1: after stop() returns, no worker process spawned by the runner is
\* still alive (stated for the step in which a stop() call returns).
C1_NoWorkerAliveAfterStop ==
    [][\A s \in Stops :
          (stop[s].st # "returned" /\ stop'[s].st = "returned")
              => \A w \in Workers : ~Alive(worker'[w])]_vars

\* C2: a compute() call made after stop(), with no start() in between, fails
\* with InvalidStateError and neither spawns nor uses a worker process.
C2_ComputeAfterStopFails ==
    [][\A c \in Calls :
          (stopped /\ call[c].pc = "new" /\ call'[c].pc # "new")
              => /\ lastOutcome' = Outcome(c, Rejected("InvalidStateError"))
                 /\ worker' = worker]_vars

\* C3: when the response carries an error, compute() rejects; it resolves
\* exactly when the response carries no error.
C3_ErrorResponseRejects ==
    [][\A c \in Calls :
          (Receive(c) /\ call[c].pc = "wait")
              => /\ lastOutcome'.call = c
                 /\ sock[call[c].sk].resp.what = "error"
                        => lastOutcome'.out.kind = "rejected"
                 /\ sock[call[c].sk].resp.what = "result"
                        => lastOutcome'.out.kind = "resolved"]_vars

\* C4: when a task's timer fires before its response, the handle that served
\* it is marked Terminating and stops being the current handle, so that no
\* later compute() call is dispatched to it.
C4_TimeoutTaintsHandle ==
    [][\A c \in Calls :
          (TimerFire(c) /\ call[c].pc = "wait")
              => /\ worker'[call[c].w].terminating
                 /\ currentWorker' # call[c].w
                 /\ workerPromise' # call[c].w]_vars

\* C5: a compute() call on a connected handle fails with ComputeTimeoutError
\* if and only if its timer fires before a complete response or a socket
\* error; if the response arrives first the timer is cancelled; and a call
\* that has settled never settles again.
C5_TimeoutIffTimerFirst ==
    [][\A c \in Calls :
          /\ call[c].pc = "wait"
                => ((/\ call'[c].pc = "done"
                     /\ lastOutcome' = Outcome(c, Rejected("ComputeTimeoutError")))
                    <=> TimerFire(c))
          /\ (Receive(c) /\ call[c].pc = "wait")
                => /\ ~call'[c].timer
                   /\ lastOutcome'.call = c
                   /\ lastOutcome'.out.kind = "resolved"
          /\ call[c].pc = "done"
                => /\ call'[c].pc = "done"
                   /\ lastOutcome' # lastOutcome => lastOutcome'.call # c]_vars

\* C5 witness: a call has failed with ComputeTimeoutError and its response
\* arrives afterwards
C5_Witness ==
    \E c \in Calls :
        /\ lastOutcome = Outcome(c, Rejected("ComputeTimeoutError"))
        /\ call[c].pc = "done"
        /\ call[c].sk # 0
        /\ sock[call[c].sk].st = "responded"

\* C6: every compute() call whose connection is refused retries on a freshly
\* acquired handle while it has attempts left.
C6_RefusedCallRetries ==
    [][\A c \in Calls :
          (ConnectRefused(c) /\ call[c].try < config.retries)
              => /\ call'[c].pc = "acquire"
                 /\ call'[c].prom # call[c].w]_vars

\* C7: when all retries+1 attempts of a compute() call were refused, the call
\* rejects; it never resolves.
C7_ExhaustedRetriesReject ==
    [][\A c \in Calls :
          (ConnectRefused(c) /\ call[c].try = config.retries)
              => /\ lastOutcome'.call = c
                 /\ lastOutcome'.out.kind = "rejected"]_vars

\* C8: once the n accepted compute() calls have all completed, exactly
\* floor(n / recycleThreshold) onRecycle events have been emitted.
C8_RecycleCount ==
    (AllReturned /\ mq = <<>> /\ NoFault)
        => onRecycle = tasksProcessed \div config.recycleThreshold

\* C9: no handle is dispatched more than recycleThreshold tasks.
C9_DispatchBound ==
    \A w \in Workers : worker[w].dispatched <= config.recycleThreshold

C11_FailedStartKillsChild ==
    [][\A w \in Workers :
          (SpawnTimeout(w) /\ starts[w] > 0) => ~Alive(worker'[w])]_vars

\* C12: after a handle failed its readiness timeout, a compute() call made
\* afterwards triggers a new spawn instead of failing with the earlier error.
C12_FailedHandleReplaced ==
    [][\A c \in Calls :
          (/\ Compute(c)
           /\ workerPromise # 0
           /\ worker[workerPromise].spawn = "failed")
              => worker'[call'[c].prom].spawn = "pending"]_vars

\* C13: once the exit event of a handle has been handled while it was the
\* current handle, the runner no longer references it, no compute() call
\* submitted afterwards acquires it, and a compute() call that finds the
\* runner without a handle spawns a replacement.
C13_ExitedHandleDropped ==
    [][\A w \in Workers :
          worker'[w].dropped
              => /\ currentWorker' # w
                 /\ workerPromise' # w
                 /\ \A c \in Calls :
                       Compute(c)
                           => /\ call'[c].prom # w
                              /\ (currentWorker = 0 /\ workerPromise = 0)
                                    => /\ worker[call'[c].prom].st = "none"
                                       /\ worker'[call'[c].prom].st = "starting"]_vars

\* C13 witness: a handle was dropped on its exit event and a compute() call
\* submitted afterwards has been dispatched to its replacement
C13_Witness ==
    \E w \in Workers, c \in Calls :
        /\ worker[w].dropped
        /\ call[c].pc = "connect"
        /\ call[c].w > w
        /\ currentWorker = call[c].w

\* only start() has been called: no compute(), no stop(), no crash
OnlyStarts ==
    /\ tasksProcessed = 0
    /\ crashes = 0
    /\ \A s \in Stops : stop[s].st = "idle"

Spawned == {w \in Workers : worker[w].st # "none"}

\* C14: any number of start() calls, sequential or concurrent, with no
\* compute(), stop(), recycle or crash in between, spawn exactly one worker
\* process, and each of them resolves only once that worker is Ready.
C14_StartIdempotent ==
    [][OnlyStarts'
          => /\ Cardinality(Spawned') <= 1
             /\ workerPromise' # 0 => Spawned' = {workerPromise'}
             /\ \A w \in Workers :
                   (starts[w] > 0 /\ starts'[w] = 0 /\ worker'[w].spawn # "failed")
                       => /\ worker'[w].spawn = "ready"
                          /\ worker'[w].st = "listening"
                          /\ currentWorker' = w
             /\ (workerPromise' # 0 /\ worker'[workerPromise'].spawn = "ready")
                   => /\ worker'[workerPromise'].st = "listening"
                      /\ currentWorker' = workerPromise']_vars

\* C14 witness: two start() calls await the spawn of the one worker process
C14_Witness ==
    /\ OnlyStarts
    /\ \E w \in Workers : starts[w] = 2 /\ Spawned = {w}

\* C18: terminate() resolves only once the child process has exited, on the
\* SIGTERM path and on the SIGKILL path (stated for every step in which a
\* terminate() that stop() awaits resolves).
C18_TerminateAwaitsExit ==
    [][\A s \in Stops, w \in Workers :
          (w \in stop[s].wait /\ w \notin stop'[s].wait)
              => ~Alive(worker'[w])]_vars

\* C19: each child process is sent SIGTERM at most once over its lifetime.
C19_OneSigterm ==
    \A w \in Workers : worker[w].sigterms <= 1

\* C20: once scheduleTermination() has been called on a handle, its
\* pendingTasks never increases again and the handle never again becomes the
\* runner's current handle.
C20_TerminatingOnlyDrains ==
    [][\A w \in Workers :
          worker[w].terminating
              => /\ worker'[w].pending <= worker[w].pending
                 /\ currentWorker' = w => currentWorker = w]_vars

\* C15: every compute() call on a running pool finishes its acquisition
\* phase: a call that has entered grabWorker() eventually leaves it, with a
\* ready handle or with an error.
C15_AcquisitionEnds ==
    \A c \in PoolCalls :
        (grab[c].pc \in {"populate", "spin"}) ~> (grab[c].pc \in {"serving", "done"})


\* the calls waiting in the task queue
Waiting == {taskQueue[i] : i \in 1..Len(taskQueue)}

\* C16: a deferred compute() call of the WorkerQueue has one outcome.  A
\* call that was handed a worker has no queue-wait timer pending and does
\* not fail with QueueTimeoutError; a call that failed with
\* QueueTimeoutError is out of the task queue, has no timer pending and
\* holds no worker, whatever is spawned later; a call still waiting has
\* its timer pending and no outcome.
C16_DeferredOneOutcome ==
    \A c \in QueueCalls :
        qtask[c].deferred =>
            /\ qtask[c].w # 0 =>
                   /\ ~qtask[c].timer
                   /\ qtask[c].out # "QueueTimeoutError"
                   /\ c \notin Waiting
            /\ qtask[c].out = "QueueTimeoutError" =>
                   /\ qtask[c].w = 0
                   /\ ~qtask[c].timer
                   /\ c \notin Waiting
                   /\ qtask[c].pc = "timedout"
            /\ c \in Waiting <=> (qtask[c].timer /\ qtask[c].out = "none" /\ qtask[c].w = 0)

\* a call has timed out in the queue, and a later call that waited in the
\* queue was handed a worker
C16_Witness ==
    \E c, d \in QueueCalls :
        /\ c < d
        /\ qtask[c].deferred /\ qtask[c].out = "QueueTimeoutError"
        /\ qtask[d].deferred /\ qtask[d].w # 0

\* C17: the waiters of the WorkerQueue are served in the order of their
\* arrival.  The task queue holds the waiters oldest first; a waiter is
\* handed a worker only when no older waiter is still waiting, and of two
\* waiters that were handed workers the older got the worker forked first;
\* no worker is idle while a call waits.
C17_WaitersFifo ==
    /\ \A i, j \in 1..Len(taskQueue) : i < j => taskQueue[i] < taskQueue[j]
    /\ taskQueue # <<>> => idleWorkers = <<>>
    /\ \A c, d \in QueueCalls :
           (c < d /\ qtask[c].deferred /\ qtask[d].deferred /\ qtask[d].w # 0) =>
               /\ c \notin Waiting
               /\ qtask[c].w # 0 => qtask[c].w < qtask[d].w

\* two calls waited at once, both were handed workers by one
\* ensureCapacity(), which then filled the idle list
C17_Witness ==
    \E c, d \in QueueCalls :
        /\ c < d
        /\ qtask[c].deferred /\ qtask[d].deferred
        /\ qtask[c].pc = "running" /\ qtask[d].pc = "running"
        /\ qtask[c].w # 0 /\ qtask[d].w = qtask[c].w + 1
        /\ idleWorkers # <<>>


\* the compute() calls in flight on handle w: dispatched to it by
\* WorkerProcess.compute() and not yet settled
InFlight(w) == {c \in Calls : call[c].w = w /\ call[c].pc \in {"connect", "wait"}}

StopNeverCalled == \A s \in Stops : stop[s].st = "idle"

\* C21: on the recycle path (stop() was never called) a handle is sent
\* SIGTERM only by a step after which no compute() call is in flight on it:
\* the call that triggered recycling and every other call dispatched to the
\* handle have resolved, failed or timed out by then.
C21_SigtermWhenIdle ==
    [][\A w \in Workers :
          (worker'[w].sigterms > worker[w].sigterms /\ StopNeverCalled') =>
              /\ worker[w].terminating
              /\ InFlight(w)' = {}]_vars

\* a recycled handle that served two calls has been sent SIGTERM
C21_Witness ==
    \E w \in Workers :
        /\ StopNeverCalled
        /\ worker[w].terminating
        /\ worker[w].dispatched = 2
        /\ worker[w].sigterms = 1


\* C27: on every handle pendingTasks is the number of
\* WorkerProcess.compute() calls on it that have started and have not
\* settled; with no call in flight it is 0.
C27_PendingCountsInFlight ==
    \A w \in Workers : worker[w].pending = Cardinality(InFlight(w))


\* C29: the terminatingWorkers registry holds exactly the handles that are
\* terminating and whose child's exit has not been handled.
C29_RegistryExact ==
    terminatingWorkers = {w \in Workers : worker[w].terminating /\ ~worker[w].notified}


\* the connections handle w's child is serving
Serving(w) == {s \in Calls : sock[s].st = "open" /\ sock[s].w = w}

\* C26: a child that has been sent SIGTERM, once or several times, and no
\* SIGKILL, does not end while it is serving a connection: a step other
\* than terminate()'s kill timer that ends such a child (or leaves it
\* ended by the kernel) finds none of its connections open.
C26_SigtermDrains ==
    [][\A w \in Workers :
          (/\ worker[w].sigterms' >= 1
           /\ worker[w].st \in {"listening", "closing"}
           /\ worker'[w].st \in {"dying", "exited"}
           /\ \A s \in Stops : ~KillTimer(s, w)) =>
              Serving(w) = {}]_vars


\* C28: a handle that recycling scheduled for termination has its child
\* exit once the calls dispatched to it have settled, stop() never being
\* called.
C28_RecycledChildExits ==
    \A w \in Workers :
        (worker[w].terminating /\ InFlight(w) = {}) ~> (worker[w].st = "exited")


\* the handles in the pool
Pooled == {workerPool[i] : i \in 1..Len(workerPool)}

\* C22: every handle in workerPool has tasksProcessed below
\* workerRecycleThreshold.
C22_PoolBelowThreshold ==
    \A h \in Pooled : poolWorker[h].tasksProcessed < WorkerRecycleThreshold

\* C23: the handle of a compute() call that is being served is not in
\* workerPool, and no two calls being served hold the same handle.
C23_ServedHandleOutOfPool ==
    \A c \in PoolCalls :
        grab[c].pc = "serving" =>
            /\ grab[c].w \notin Pooled
            /\ \A d \in PoolCalls \ {c} :
                   grab[d].pc = "serving" => grab[d].w # grab[c].w

\* C24: at most one populatePool() body is in flight, and workerPool is
\* never longer than workerPoolSize.
C24_SingleFlight ==
    /\ Cardinality(batch) <= 1
    /\ batch # {} => populating
    /\ Len(workerPool) <= WorkerPoolSize

\* a populatePool() is in flight while a compute() call that found the pool
\* drained and the timer of populateInBackground() have asked for another
C24_Witness ==
    /\ Cardinality(batch) = 1
    /\ \E c \in PoolCalls : grab[c].pc = "spin"
    /\ \E h \in PoolHandles : poolWorker[h].st \in {"exited", "terminating"}


\* C25: serveClient() gives every connection one response document, the
\* success document when nothing was thrown and the error document
\* otherwise, and closes it; ctx.finalize() runs once per connection.
C25_OneResponse ==
    \A k \in Conns :
        /\ Len(conn[k].docs) <= 1
        /\ conn[k].finalized <= 1
        /\ conn[k].pc \in {"done", "rejected"} =>
               /\ Len(conn[k].docs) = 1
               /\ conn[k].docs[1] = (IF conn[k].threw THEN "error" ELSE "success")
               /\ conn[k].ended
               /\ conn[k].finalized = 1


\* C30: with two runners in one host process, stop() on a runner signals
\* only the handles this runner spawned.
C30_StopSignalsOwn ==
    \A w \in TwoWorkers : \A r \in tworker[w].by : r = tworker[w].owner


\* C31: when the stream has ended, consumeChunkedStream() has yielded
\* exactly the payloads written with writeChunkStream(), in order, however
\* the bytes were split into chunks.
C31_FramingRoundTrip == ended => yielded = written

====
